---- MODULE Spec2Model ----
(***************************************************************************)
(* Live transcription services of refined-bars-ai.                         *)
(*                                                                         *)
(*   windowed   : src/unnamed/part_001 (ScriptProcessor capture, a 3 s     *)
(*                window timer, one REST call per window)                  *)
(*   continuous : src/unnamed/part_000 (AudioWorklet capture, a live       *)
(*                socket, transcript deltas pushed by the transport)       *)
(*                                                                         *)
(* Both keep one module-level currentSession reference and export          *)
(* startLiveTranscription / stopLiveTranscription.  Every action below is  *)
(* one event-loop task: the synchronous code between two awaits.           *)
(* The Recorder (src/components/Recorder.tsx) calls stop, saves the        *)
(* returned audio to the Backup Store (src/utils/indexedDb.ts) and hands   *)
(* the transcript on.                                                      *)
(* Text is a sequence of characters; character 0 is the space and a        *)
(* positive character n stands for the words of window / delta n.          *)
(***************************************************************************)
EXTENDS Integers, Sequences, FiniteSets, TLC

\* ---------------------------------------------------------------- bounds
\* start calls, and stop calls, the application makes in a run
MaxCalls == 2
\* calls, capture blocks and transport events of a run, taken together
MaxSteps == 4
\* saveAudioBackup calls made directly on the Backup Store between two clears
MaxStoreCalls == 3
\* readings of the clock the Backup Store is called at
MaxTime == 3
\* chunks handed to the WAV encoder in one call
MaxChunks == 2

\* ------------------------------------------------------ program constants
SAMPLE_RATE == 16000
ScriptBufferSize == 4096
WavHeaderBytes == 44

Starts == 1..MaxCalls
Stops == 1..MaxCalls
NoSession == 0
Space == 0

Providers == {"sarvam", "google", "openrouter"}

\* sample rates a browser gives an AudioContext when it ignores the requested one
NativeRates == {44100, 48000}
Times == 1..MaxTime
SessionIds == {"interview", "other"}
ParamIds == {"1", "2"}
Outcomes == {"ok", "openFails", "putFails"}

VARIABLES
    service,        \* which service file is loaded: "windowed" | "continuous"
    provider,       \* the provider choice the application passes to start
    currentSession, \* let currentSession: LiveSession | null  (0 = null)
    sess,           \* the LiveSession object (and stream / context locals) of start p
    spc,            \* position of each startLiveTranscription call
    qpc,            \* position of each Recorder stop (stopLiveTranscription + save)
    qsess,          \* const session = currentSession, local of each stop call
    qres,           \* value returned by each stop call
    cb,             \* callbacks invoked so far, per start call
    inflight,       \* windows handed to a provider: being read, or awaiting the response
    backups,        \* records of the Backup Store; the timestamp is the key
    nblocks,        \* capture blocks produced by the audio hardware so far
    nwin,           \* windows swapped out so far
    nmsg,           \* transport messages delivered so far
    sprev,          \* history: the session start p found active and stopped inline
    stopDuring,     \* history: a stop call returned empty while start p was connecting
    completed,      \* history: window responses applied to session s, in arrival order
    delivered,      \* history: transcript deltas delivered to session s, in order
    deviceRate,     \* the sample rate the browser gives an AudioContext on this device
    captured,       \* history: blocks the capture callback of session s accepted
    saves,          \* history: outcomes of the saveAudioBackup calls since the last clear
    dispatched,     \* history: the chunks of the windows swapped out of session s, in order
    pureIn,         \* the audio helper called on its own, and its arguments
    pureOut         \* what the helper returned or threw

vars == <<service, provider, currentSession, sess, spc, qpc, qsess, qres, cb, inflight,
          backups, nblocks, nwin, nmsg, sprev, stopDuring, completed, delivered,
          deviceRate, captured, saves, dispatched, pureIn, pureOut>>

\* ---------------------------------------------------------- pure helpers
RECURSIVE TrimLeft(_)
TrimLeft(t) ==
    IF t # <<>> /\ Head(t) = Space THEN TrimLeft(Tail(t)) ELSE t

RECURSIVE TrimRight(_)
TrimRight(t) ==
    IF t # <<>> /\ t[Len(t)] = Space THEN TrimRight(SubSeq(t, 1, Len(t) - 1)) ELSE t

\* String.prototype.trim
Trim(t) == TrimRight(TrimLeft(t))

IsPrefix(a, b) == Len(a) <= Len(b) /\ SubSeq(b, 1, Len(a)) = a

\* new Blob([], {type: 'audio/wav'}) : no header, no data
EmptyBlob == [size |-> 0, sampleRate |-> 0, riffLen |-> 0, dataLen |-> 0, blocks |-> <<>>]

\* resample (windowed) / downsample (continuous): the length of the result,
\* `Math.round(buffer.length / (fromRate / toRate))`, the input itself when the rates agree
ResampleLength(len, fromRate, toRate) ==
    IF fromRate = toRate
    THEN len
    ELSE (2 * len * toRate + fromRate) \div (2 * fromRate)

\* What a helper call does: it returns an array of n samples, or it throws.
Returns(n) == [kind |-> "returns", length |-> n]
Throws(name) == [kind |-> "throws", error |-> name]

\* Math.round(num / den) for den # 0: halves round towards plus infinity; -0 is 0
RoundDiv(num, den) ==
    IF den > 0
    THEN (2 * num + den) \div (2 * den)
    ELSE (-(2 * num) - den) \div (-(2 * den))

\* resample (windowed) / downsample (continuous) on a block of len samples, with no
\* check of its arguments:
\*   `if (fromRate === toRate) return buffer;  ratio = fromRate / toRate;`
\*   `newLength = Math.round(buffer.length / ratio);  new Float32Array(newLength)`
\* A ratio of 0 makes the length Infinity (NaN for an empty block, which the array
\* constructor takes as 0); an infinite or negative length is a RangeError.
Resample(len, fromRate, toRate) ==
    IF fromRate = toRate THEN Returns(len)
    ELSE IF fromRate = 0 THEN (IF len = 0 THEN Returns(0) ELSE Throws("RangeError"))
    ELSE IF toRate = 0 THEN Returns(0)
    ELSE IF RoundDiv(len * toRate, fromRate) < 0 THEN Throws("RangeError")
    ELSE Returns(RoundDiv(len * toRate, fromRate))

\* a stored chunk: the capture block it came from, the samples it holds and the rate
\* they were taken at
Chunk(b, n, r) == [block |-> b, samples |-> n, rate |-> r]

\* `fullAudioChunks.reduce((acc, chunk) => acc + chunk.length, 0)`
RECURSIVE TotalLength(_)
TotalLength(chunks) ==
    IF chunks = <<>> THEN 0 ELSE Head(chunks).samples + TotalLength(Tail(chunks))

\* an encoder that writes no header when there is no sample
EncodeWAVSkipsEmpty(chunks, rate) ==
    LET n == TotalLength(chunks)
    IN  IF n = 0
        THEN EmptyBlob
        ELSE [size |-> WavHeaderBytes + 2 * n, sampleRate |-> rate,
              riffLen |-> 36 + 2 * n, dataLen |-> 2 * n, blocks |-> chunks]

\* mergeBuffers + encodeWAV (windowed) / buildWavBlob (continuous): a 44-byte header
\* followed by 2 bytes per sample of the merged chunks.
EncodeWAV(chunks, rate) ==
    LET n == TotalLength(chunks)
    IN  [size |-> WavHeaderBytes + 2 * n, sampleRate |-> rate,
         riffLen |-> 36 + 2 * n, dataLen |-> 2 * n, blocks |-> chunks]

NewSession ==
    [provider |-> "none", isActive |-> FALSE, stream |-> "none", ctx |-> "none",
     graph |-> FALSE, timer |-> FALSE, socket |-> "none", rate |-> 0,
     accumulatedData |-> <<>>, totalSamples |-> 0,
     fullAudioChunks |-> <<>>, transcript |-> <<>>]

\* a stop without a session that returns an encoded, header-only WAV
EmptyResultWithHeader ==
    [returned |-> TRUE, transcript |-> <<>>, audioBlob |-> EncodeWAV(<<>>, SAMPLE_RATE)]

NoResult == [returned |-> FALSE, transcript |-> <<>>, audioBlob |-> EmptyBlob]
EmptyResult == [returned |-> TRUE, transcript |-> <<>>, audioBlob |-> EmptyBlob]

NoCallbacks == [status |-> <<>>, errors |-> 0, transcripts |-> 0]

\* saveAudioBackup calls so far: records written, failures swallowed, errors thrown
NoSaves == [ok |-> 0, failed |-> 0, threw |-> 0]

Report(c, st) == [c EXCEPT !.status = Append(@, st)]

\* the catch block of startLiveTranscription: onStatusChange('disconnected'); onError(err)
ReportFailure(c) == [Report(c, "disconnected") EXCEPT !.errors = @ + 1]

\* no audio helper is called on its own
NoCall == [fn |-> "none"]

InitState ==
    /\ currentSession = NoSession
    /\ sess = [p \in Starts |-> NewSession]
    /\ spc = [p \in Starts |-> "idle"]
    /\ qpc = [q \in Stops |-> "idle"]
    /\ qsess = [q \in Stops |-> NoSession]
    /\ qres = [q \in Stops |-> NoResult]
    /\ cb = [p \in Starts |-> NoCallbacks]
    /\ inflight = {}
    /\ backups = {}
    /\ nblocks = 0
    /\ nwin = 0
    /\ nmsg = 0
    /\ sprev = [p \in Starts |-> NoSession]
    /\ stopDuring = [p \in Starts |-> FALSE]
    /\ completed = [p \in Starts |-> <<>>]
    /\ delivered = [p \in Starts |-> <<>>]
    /\ captured = [p \in Starts |-> <<>>]
    /\ saves = NoSaves
    /\ dispatched = [p \in Starts |-> <<>>]

Init0 == InitState /\ pureIn = NoCall /\ pureOut = NoCall

\* `new AudioContext({sampleRate: SAMPLE_RATE})` is honoured by the browser
InitWindowed ==
    /\ service = "windowed" /\ provider \in Providers /\ deviceRate = SAMPLE_RATE
    /\ Init0
InitContinuous ==
    /\ service = "continuous" /\ provider = "google" /\ deviceRate = SAMPLE_RATE
    /\ Init0

\* ------------------------------------------------ stopLiveTranscription
\* a stop that forgets the microphone tracks
StopTeardownKeepsTracks(s) ==
    [s EXCEPT !.isActive = FALSE,
              !.timer = FALSE,
              !.socket = IF @ = "open" THEN "closing" ELSE @,
              !.graph = FALSE,
              !.ctx = IF @ = "running" THEN "closing" ELSE @]

\* The synchronous part of stop, up to `await session.audioContext?.close()`:
\* isActive = false, clearInterval, track.stop(), disconnect(), close() requested;
\* the continuous service also closes the live socket.
StopTeardown(s) ==
    [s EXCEPT !.isActive = FALSE,
              !.timer = FALSE,
              !.socket = IF @ = "open" THEN "closing" ELSE @,
              !.stream = IF @ = "live" THEN "stopped" ELSE @,
              !.graph = FALSE,
              !.ctx = IF @ = "running" THEN "closing" ELSE @]

\* a stop that always writes SAMPLE_RATE in the header
FinalResultAtSampleRate(s) ==
    [returned |-> TRUE,
     transcript |-> s.transcript,
     audioBlob |-> IF service = "windowed" /\ Len(s.fullAudioChunks) = 0
                   THEN EmptyBlob
                   ELSE EncodeWAV(s.fullAudioChunks, SAMPLE_RATE)]

\* a stop that returns only the audio of the windows already swapped out
FinalResultOnlyDispatched(s) ==
    [returned |-> TRUE,
     transcript |-> s.transcript,
     audioBlob |-> LET sentChunks == SubSeq(s.fullAudioChunks, 1,
                                            Len(s.fullAudioChunks) - Len(s.accumulatedData))
                   IN  IF Len(sentChunks) = 0
                       THEN EmptyBlob
                       ELSE EncodeWAV(sentChunks, SAMPLE_RATE)]

\* The part of stop after the await: the result built from the session object.
\* windowed: an empty Blob when nothing was captured, else encodeWAV, whose header
\* carries SAMPLE_RATE; continuous: in every case
\* buildWavBlob(audioChunks, audioContext?.sampleRate || 16000).
FinalResult(s) ==
    [returned |-> TRUE,
     transcript |-> s.transcript,
     audioBlob |-> IF service = "windowed"
                   THEN IF Len(s.fullAudioChunks) = 0
                        THEN EmptyBlob
                        ELSE EncodeWAV(s.fullAudioChunks, SAMPLE_RATE)
                   ELSE EncodeWAV(s.fullAudioChunks, IF s.rate # 0 THEN s.rate ELSE 16000)]

NumCalls ==
    Cardinality({p \in Starts : spc[p] # "idle"}) + Cardinality({q \in Stops : qpc[q] # "idle"})

\* calls made and events delivered so far
Steps == NumCalls + nblocks + nmsg

\* `if (!currentSession) return {transcript: "", audioBlob: new Blob(...)}`
StopIsNoop(cur) == cur = NoSession

Connecting(p) == spc[p] \in {"connect", "getUserMedia", "ctxInit"}

\* Recorder: stopLiveRecording / handleLiveStop call stopLiveTranscription().
StopCall(q) ==
    /\ qpc[q] = "idle"
    /\ \A r \in Stops : r < q => qpc[r] # "idle"
    /\ Steps < MaxSteps
    /\ IF StopIsNoop(currentSession)
       THEN /\ qres' = [qres EXCEPT ![q] = EmptyResult]
            /\ qpc' = [qpc EXCEPT ![q] = "returned"]
            /\ stopDuring' = [p \in Starts |-> stopDuring[p] \/ Connecting(p)]
            /\ UNCHANGED <<sess, qsess>>
       ELSE /\ sess' = [sess EXCEPT ![currentSession] = StopTeardown(@)]
            /\ qsess' = [qsess EXCEPT ![q] = currentSession]
            /\ qpc' = [qpc EXCEPT ![q] = "awaitClose"]
            /\ UNCHANGED <<qres, stopDuring>>
    /\ UNCHANGED <<service, provider, deviceRate, pureIn, pureOut, dispatched, captured, saves, currentSession, spc, cb, inflight, backups,
                   nblocks, nwin, nmsg, sprev, completed, delivered>>

\* audioContext.close() resolved: build the result, currentSession = null, return.
StopResume(q) ==
    /\ qpc[q] = "awaitClose"
    /\ sess' = [sess EXCEPT ![qsess[q]].ctx = "closed"]
    /\ qres' = [qres EXCEPT ![q] = FinalResult(sess[qsess[q]])]
    /\ currentSession' = NoSession
    /\ qpc' = [qpc EXCEPT ![q] = "returned"]
    /\ UNCHANGED <<service, provider, deviceRate, pureIn, pureOut, dispatched, captured, saves, spc, qsess, cb, inflight, backups, nblocks, nwin,
                   nmsg, sprev, stopDuring, completed, delivered>>

\* stop call q called close() on a context that an earlier stop, or the inline stop
\* of a start, had already asked to close
ClosedTwice(q) ==
    \/ \E r \in Stops : r < q /\ qsess[r] = qsess[q]
    \/ \E p \in Starts : sprev[p] = qsess[q]

\* `await session.audioContext?.close()` rejects with an InvalidStateError: a browser
\* may reject close() on a context that is closing or closed.  The windowed stop has no
\* try around it (part_001:312): the call throws before the result is built and before
\* `currentSession = null`, and the Recorder's catch reports the error.  The continuous
\* stop catches the rejection (part_000:261-267) and goes on as if close() had resolved.
StopThrows(q) ==
    /\ service = "windowed"
    /\ qpc[q] = "awaitClose"
    /\ ClosedTwice(q)
    /\ qpc' = [qpc EXCEPT ![q] = "threw"]
    /\ UNCHANGED <<service, provider, deviceRate, pureIn, pureOut, dispatched, captured, saves, currentSession, sess, spc, qsess, qres, cb,
                   inflight, backups, nblocks, nwin, nmsg, sprev, stopDuring, completed,
                   delivered>>

\* --------------------------------------------------- the Backup Store
\* `db.put(STORE_NAME, record)` on a store whose keyPath is 'timestamp': a record with
\* the same key is replaced.
Put(store, rec) == {r \in store : r.timestamp # rec.timestamp} \cup {rec}

BackupRecord(blob, sid, pid, now) ==
    [timestamp |-> now, sessionId |-> sid, parameterId |-> pid, blob |-> blob]

\* a save without the try / catch: a failure reaches the caller
SaveAudioBackupNoCatch(store, log, blob, sid, pid, now, outcome) ==
    IF outcome = "ok"
    THEN [store |-> Put(store, BackupRecord(blob, sid, pid, now)),
          saves |-> [log EXCEPT !.ok = @ + 1]]
    ELSE [store |-> store, saves |-> [log EXCEPT !.failed = @ + 1, !.threw = @ + 1]]

\* saveAudioBackup: open the database, put one record keyed by Date.now(); an error
\* of either step is caught and logged.  outcome is what the database does:
\* "ok", "openFails" or "putFails"; a failed put leaves the store as it was.
SaveAudioBackup(store, log, blob, sid, pid, now, outcome) ==
    IF outcome = "ok"
    THEN [store |-> Put(store, BackupRecord(blob, sid, pid, now)),
          saves |-> [log EXCEPT !.ok = @ + 1]]
    ELSE [store |-> store, saves |-> [log EXCEPT !.failed = @ + 1]]

RECURSIVE SizeOf(_)
SizeOf(store) ==
    IF store = {} THEN 0
    ELSE LET r == CHOOSE x \in store : TRUE IN r.blob.size + SizeOf(store \ {r})

\* getStorageStats: the number of records and the sum of their blob sizes
GetStorageStats(store) == [count |-> Cardinality(store), sizeBytes |-> SizeOf(store)]

\* `db.getAllFromIndex(STORE_NAME, 'by-session', sessionId)`: the records of the
\* session, in ascending order of the primary key
RECURSIVE InKeyOrder(_)
InKeyOrder(recs) ==
    IF recs = {} THEN <<>>
    ELSE LET r == CHOOSE x \in recs : \A y \in recs : x.timestamp <= y.timestamp
         IN  <<r>> \o InKeyOrder(recs \ {r})

GetAllFromIndex(store, sid) == InKeyOrder({r \in store : r.sessionId = sid})

\* a filter that lets every record through
FilterAll(all, pid) == all

\* `.filter(item => item.parameterId === parameterId)`
FilterByParameter(all, pid) == SelectSeq(all, LAMBDA item : item.parameterId = pid)

\* `.sort((a, b) => a.timestamp - b.timestamp)`: a stable sort, by insertion
RECURSIVE InsertByTimestamp(_, _)
InsertByTimestamp(sorted, item) ==
    IF sorted = <<>> THEN <<item>>
    ELSE IF sorted[Len(sorted)].timestamp - item.timestamp > 0
         THEN Append(InsertByTimestamp(SubSeq(sorted, 1, Len(sorted) - 1), item),
                     sorted[Len(sorted)])
         ELSE Append(sorted, item)

RECURSIVE SortByTimestamp(_)
SortByTimestamp(items) ==
    IF items = <<>> THEN <<>>
    ELSE InsertByTimestamp(SortByTimestamp(SubSeq(items, 1, Len(items) - 1)),
                           items[Len(items)])

GetQuestionAudio(store, sid, pid) ==
    SortByTimestamp(FilterByParameter(GetAllFromIndex(store, sid), pid))

\* Date.now() of a save that runs at least a millisecond after every earlier one
LaterThanAll(store) ==
    IF store = {} THEN 1
    ELSE 1 + (CHOOSE t \in {r.timestamp : r \in store} :
                 \A r \in store : r.timestamp <= t)

\* ------------------------------------------------------------ Recorder
\* the sessionId and paramId props of the mounted Recorder
sessionId == "interview"
paramId == "1"

\* a Recorder that saves only when there is a transcript to hand on
RecorderSaveIfTranscript(q, now, outcome) ==
    /\ qpc[q] = "returned"
    /\ LET r == SaveAudioBackup(backups, saves, qres[q].audioBlob, sessionId, paramId,
                                now, outcome)
       IN  IF qres[q].transcript # <<>>
           THEN backups' = r.store /\ saves' = r.saves
           ELSE UNCHANGED <<backups, saves>>
    /\ qpc' = [qpc EXCEPT ![q] = "saved"]
    /\ UNCHANGED <<service, provider, deviceRate, pureIn, pureOut, dispatched, captured, currentSession, sess, spc, qsess,
                   qres, cb, inflight, nblocks, nwin, nmsg, sprev, stopDuring, completed,
                   delivered>>

\* Recorder, after `await stopLiveTranscription()`:
\* `await saveAudioBackup(audioBlob, sessionId, paramId)`.
RecorderSave(q, now, outcome) ==
    /\ qpc[q] = "returned"
    /\ LET r == SaveAudioBackup(backups, saves, qres[q].audioBlob, sessionId, paramId,
                                now, outcome)
       IN  backups' = r.store /\ saves' = r.saves
    /\ qpc' = [qpc EXCEPT ![q] = "saved"]
    /\ UNCHANGED <<service, provider, deviceRate, pureIn, pureOut, dispatched, captured, currentSession, sess, spc, qsess,
                   qres, cb, inflight, nblocks, nwin, nmsg, sprev, stopDuring, completed,
                   delivered>>

\* Recorder, after the save: `if (transcript && onLiveStopAndTranscribe)` the transcript
\* and the blob are handed to the analysis handler; without a transcript an error is
\* shown and the Recorder goes back to idle.
RecorderHandoff(q) ==
    /\ qpc[q] = "saved"
    /\ qpc' = [qpc EXCEPT ![q] = IF qres[q].transcript # <<>> THEN "handed"
                                  ELSE "noTranscript"]
    /\ UNCHANGED <<service, provider, deviceRate, pureIn, pureOut, dispatched, captured, saves, currentSession, sess, spc,
                   qsess, qres, cb, inflight, backups, nblocks, nwin, nmsg, sprev,
                   stopDuring, completed, delivered>>

\* ------------------------------------- the Backup Store, called directly
\* saveAudioBackup called by any component, at any reading of the clock
StoreSave(blob, sid, pid, now, outcome) ==
    /\ saves.ok + saves.failed < MaxStoreCalls
    /\ LET r == SaveAudioBackup(backups, saves, blob, sid, pid, now, outcome)
       IN  backups' = r.store /\ saves' = r.saves
    /\ UNCHANGED <<service, provider, deviceRate, pureIn, pureOut, dispatched, captured, currentSession, sess, spc, qpc,
                   qsess, qres, cb, inflight, nblocks, nwin, nmsg, sprev, stopDuring,
                   completed, delivered>>

\* clearAllBackups: `db.clear(STORE_NAME)`
ClearAllBackups ==
    /\ backups # {}
    /\ backups' = {}
    /\ saves' = NoSaves
    /\ UNCHANGED <<service, provider, deviceRate, pureIn, pureOut, dispatched, captured, currentSession, sess, spc, qpc,
                   qsess, qres, cb, inflight, nblocks, nwin, nmsg, sprev, stopDuring,
                   completed, delivered>>

\* ----------------------------------------------- startLiveTranscription
\* `if (currentSession?.isActive) await stopLiveTranscription();`
MustStopFirst(cur) == cur # NoSession /\ sess[cur].isActive

\* onStatusChange('connecting') and the code up to the first await of the try block.
\* windowed: getUserMedia is requested.  continuous: the session object is created
\* with isActive = true and ai.live.connect is requested.
BeginConnecting(p, s) ==
    IF service = "windowed"
    THEN s
    ELSE [s EXCEPT !.isActive = TRUE, !.socket = "connecting"]

FirstAwait == IF service = "windowed" THEN "getUserMedia" ELSE "connect"

StartCall(p, prov) ==
    /\ spc[p] = "idle"
    /\ \A r \in Starts : r < p => spc[r] # "idle"
    /\ Steps < MaxSteps
    /\ IF MustStopFirst(currentSession)
       THEN /\ sess' = [sess EXCEPT ![currentSession] = StopTeardown(@),
                                    ![p].provider = prov]
            /\ sprev' = [sprev EXCEPT ![p] = currentSession]
            /\ spc' = [spc EXCEPT ![p] = "stopClose"]
            /\ UNCHANGED cb
       ELSE /\ sess' = [sess EXCEPT ![p] = BeginConnecting(p, [@ EXCEPT !.provider = prov])]
            /\ cb' = [cb EXCEPT ![p] = Report(@, "connecting")]
            /\ spc' = [spc EXCEPT ![p] = FirstAwait]
            /\ UNCHANGED sprev
    /\ UNCHANGED <<service, provider, deviceRate, pureIn, pureOut, dispatched, captured, saves, currentSession, qpc, qsess, qres, inflight, backups,
                   nblocks, nwin, nmsg, stopDuring, completed, delivered>>

\* The inline stop resumes after close(): its result is dropped by start and
\* currentSession = null.  start continues in the microtask that follows, before any
\* other task: onStatusChange('connecting') and the first await of the try block.
StartStopResume(p) ==
    /\ spc[p] = "stopClose"
    /\ sess' = [sess EXCEPT ![sprev[p]].ctx = "closed",
                            ![p] = BeginConnecting(p, @)]
    /\ currentSession' = NoSession
    /\ cb' = [cb EXCEPT ![p] = Report(@, "connecting")]
    /\ spc' = [spc EXCEPT ![p] = FirstAwait]
    /\ UNCHANGED <<service, provider, deviceRate, pureIn, pureOut, dispatched, captured, saves, qpc, qsess, qres, inflight, backups, nblocks,
                   nwin, nmsg, sprev, stopDuring, completed, delivered>>

\* continuous: ai.live.connect resolved; onopen reported 'connected';
\* session.session = liveSession; getUserMedia is requested.
ConnectOpen(p) ==
    /\ spc[p] = "connect"
    /\ sess' = [sess EXCEPT ![p].socket = "open"]
    /\ cb' = [cb EXCEPT ![p] = Report(@, "connected")]
    /\ spc' = [spc EXCEPT ![p] = "getUserMedia"]
    /\ UNCHANGED <<service, provider, deviceRate, pureIn, pureOut, dispatched, captured, saves, currentSession, qpc, qsess, qres, inflight, backups,
                   nblocks, nwin, nmsg, sprev, stopDuring, completed, delivered>>

\* continuous: ai.live.connect rejected; the catch block runs and start rethrows.
ConnectFailed(p) ==
    /\ spc[p] = "connect"
    /\ sess' = [sess EXCEPT ![p].socket = "closed"]
    /\ cb' = [cb EXCEPT ![p] = ReportFailure(@)]
    /\ spc' = [spc EXCEPT ![p] = "failed"]
    /\ UNCHANGED <<service, provider, deviceRate, pureIn, pureOut, dispatched, captured, saves, currentSession, qpc, qsess, qres, inflight, backups,
                   nblocks, nwin, nmsg, sprev, stopDuring, completed, delivered>>

\* getUserMedia resolved: the stream is live, the AudioContext is created,
\* and start awaits audioContext.resume() (windowed) / audioWorklet.addModule (continuous).
MicGranted(p) ==
    /\ spc[p] = "getUserMedia"
    /\ sess' = [sess EXCEPT ![p].stream = "live", ![p].ctx = "running",
                            ![p].rate = deviceRate]
    /\ spc' = [spc EXCEPT ![p] = "ctxInit"]
    /\ UNCHANGED <<service, provider, deviceRate, pureIn, pureOut, dispatched, captured, saves, currentSession, qpc, qsess, qres, cb, inflight, backups,
                   nblocks, nwin, nmsg, sprev, stopDuring, completed, delivered>>

\* getUserMedia rejected (permission denied, no device): the catch block runs.
MicDenied(p) ==
    /\ spc[p] = "getUserMedia"
    /\ cb' = [cb EXCEPT ![p] = ReportFailure(@)]
    /\ spc' = [spc EXCEPT ![p] = "failed"]
    /\ UNCHANGED <<service, provider, deviceRate, pureIn, pureOut, dispatched, captured, saves, currentSession, sess, qpc, qsess, qres, inflight, backups,
                   nblocks, nwin, nmsg, sprev, stopDuring, completed, delivered>>

\* The last synchronous part of start: nodes created and connected, the capture
\* callback installed, (windowed) the session object created with isActive = true and
\* the window timer started, currentSession = session, (windowed) 'connected' reported.
InstallSession(p, s) ==
    [s EXCEPT !.isActive = TRUE,
              !.graph = TRUE,
              !.timer = (service = "windowed")]

StartFinish(p) ==
    /\ spc[p] = "ctxInit"
    /\ sess' = [sess EXCEPT ![p] = InstallSession(p, @)]
    /\ currentSession' = p
    /\ cb' = [cb EXCEPT ![p] = IF service = "windowed" THEN Report(@, "connected") ELSE @]
    /\ spc' = [spc EXCEPT ![p] = "done"]
    /\ UNCHANGED <<service, provider, deviceRate, pureIn, pureOut, dispatched, captured, saves, qpc, qsess, qres, inflight, backups, nblocks, nwin,
                   nmsg, sprev, stopDuring, completed, delivered>>

\* audioContext.resume() / audioWorklet.addModule rejected: the catch block runs;
\* the acquired stream is not stopped.
CtxInitFailed(p) ==
    /\ spc[p] = "ctxInit"
    /\ cb' = [cb EXCEPT ![p] = ReportFailure(@)]
    /\ spc' = [spc EXCEPT ![p] = "failed"]
    /\ UNCHANGED <<service, provider, deviceRate, pureIn, pureOut, dispatched, captured, saves, currentSession, sess, qpc, qsess, qres, inflight, backups,
                   nblocks, nwin, nmsg, sprev, stopDuring, completed, delivered>>

\* ------------------------------------------------------- audio capture
\* windowed: scriptNode.onaudioprocess; continuous: workletNode.port.onmessage.
\* a capture callback that keeps a block only while the socket is open
CaptureBlockNeedsSocket(s, b) ==
    IF ~s.isActive \/ (service = "continuous" /\ s.socket # "open")
    THEN s
    ELSE [s EXCEPT !.accumulatedData = Append(@, Chunk(b, ScriptBufferSize, s.rate)),
                   !.totalSamples = @ + ScriptBufferSize,
                   !.fullAudioChunks = Append(@, Chunk(b, ScriptBufferSize, s.rate))]

\* a capture callback that does not look at isActive
CaptureBlockIgnoresActive(s, b) ==
    IF service = "windowed"
    THEN [s EXCEPT !.accumulatedData = Append(@, Chunk(b, ScriptBufferSize, s.rate)),
                   !.totalSamples = @ + ScriptBufferSize,
                   !.fullAudioChunks = Append(@, Chunk(b, ScriptBufferSize, s.rate))]
    ELSE [s EXCEPT !.fullAudioChunks = Append(@, Chunk(b, ScriptBufferSize, s.rate))]

\* b is the captured block of ScriptBufferSize samples.  A session that is no longer
\* active ignores it.  windowed: the block is resampled when the context does not run at
\* SAMPLE_RATE, then pushed to the window buffer and to the backup buffer.
\* continuous: the raw block is pushed to the backup buffer; the downsampled copy is
\* only sent to the socket, inside a try / catch.
CaptureBlock(s, b) ==
    IF ~s.isActive
    THEN s
    ELSE IF service = "windowed"
         THEN LET finalData ==
                      IF s.rate # SAMPLE_RATE
                      THEN Chunk(b, ResampleLength(ScriptBufferSize, s.rate, SAMPLE_RATE),
                                 SAMPLE_RATE)
                      ELSE Chunk(b, ScriptBufferSize, s.rate)
              IN  [s EXCEPT !.accumulatedData = Append(@, finalData),
                            !.totalSamples = @ + finalData.samples,
                            !.fullAudioChunks = Append(@, finalData)]
         ELSE [s EXCEPT !.fullAudioChunks = Append(@, Chunk(b, ScriptBufferSize, s.rate))]

\* the chunk reaches the transport: only the continuous service sends from the capture
\* callback, and a send on a socket that is not open fails
ChunkSent(s) == service = "continuous" /\ s.socket = "open"

\* The audio hardware delivers the next block to the capture callback of session p.
\* A callback already queued when stop disconnects the nodes still runs.
Capture(p) ==
    /\ spc[p] = "done"
    /\ sess[p].ctx \in {"running", "closing"}
    /\ Steps < MaxSteps
    /\ nblocks' = nblocks + 1
    /\ sess' = [sess EXCEPT ![p] = CaptureBlock(@, nblocks + 1)]
    /\ captured' = [captured EXCEPT ![p] =
                      IF sess[p].isActive
                      THEN Append(@, [block |-> nblocks + 1, sent |-> ChunkSent(sess[p])])
                      ELSE @]
    /\ UNCHANGED <<service, provider, deviceRate, pureIn, pureOut, dispatched, saves, currentSession, spc, qpc, qsess, qres, cb, inflight,
                   backups, nwin, nmsg, sprev, stopDuring, completed, delivered>>

\* ------------------------------------------------- windowed: the timer
\* `if (!session.isActive || session.totalSamples === 0) return;`
TickSkips(s) == ~s.isActive \/ s.totalSamples = 0

\* a swap that also empties the backup buffer
SwapWindowDropsBackup(s) ==
    [s EXCEPT !.accumulatedData = <<>>, !.totalSamples = 0, !.fullAudioChunks = <<>>]

\* a swap that resets the sample count and leaves the pending blocks in place
SwapWindowKeepsPending(s) == [s EXCEPT !.totalSamples = 0]

\* `session.accumulatedData = []; session.totalSamples = 0;`
SwapWindow(s) == [s EXCEPT !.accumulatedData = <<>>, !.totalSamples = 0]

\* sarvam and google issue one request for the window; openrouter issues none.
IssuesRequest(prov) == prov \in {"sarvam", "google"}

\* sarvam: `await fetch(...)` is called by the timer callback itself.  google: the
\* callback only starts `reader.readAsDataURL(wavBlob)`; generateContent is called by
\* reader.onloadend, a later task.
SentByTick(prov) == prov = "sarvam"

\* The window timer fires for session p: the pending window is swapped out and handed
\* to the provider branch.
Tick(p) ==
    /\ sess[p].timer
    /\ IF TickSkips(sess[p])
       THEN UNCHANGED <<sess, inflight, nwin, dispatched>>
       ELSE /\ sess' = [sess EXCEPT ![p] = SwapWindow(@)]
            /\ nwin' = nwin + 1
            /\ dispatched' = [dispatched EXCEPT ![p] = @ \o sess[p].accumulatedData]
            /\ inflight' =
                 IF IssuesRequest(sess[p].provider)
                 THEN inflight \cup {[session |-> p, w |-> nwin + 1,
                                      wav |-> EncodeWAV(sess[p].accumulatedData, SAMPLE_RATE),
                                      sent |-> SentByTick(sess[p].provider)]}
                 ELSE inflight
    /\ UNCHANGED <<service, provider, deviceRate, pureIn, pureOut, captured, saves, currentSession, spc, qpc, qsess, qres, cb, backups,
                   nblocks, nmsg, sprev, stopDuring, completed, delivered>>

\* reader.onloadend of a google window: the request is issued now, whatever has
\* happened to the session since the window was swapped out.
ReaderLoaded(r) ==
    /\ r \in inflight
    /\ ~r.sent
    /\ inflight' = (inflight \ {r}) \cup {[r EXCEPT !.sent = TRUE]}
    /\ UNCHANGED <<service, provider, deviceRate, pureIn, pureOut, dispatched, captured, saves, currentSession, sess, spc, qpc, qsess, qres, cb, backups,
                   nblocks, nwin, nmsg, sprev, stopDuring, completed, delivered>>

\* A provider response: ok = FALSE is a thrown error or a non-OK HTTP status;
\* text = <<>> is a missing or empty transcript field.
Responses(w) ==
    { [ok |-> FALSE, text |-> <<>>],
      [ok |-> TRUE, text |-> <<>>],
      [ok |-> TRUE, text |-> <<Space>>],
      [ok |-> TRUE, text |-> <<Space, w, Space>>] }

\* The text the window callback appends for a response:
\* `if (response.ok) { if (data.transcript) { newText = data.transcript.trim(); if (newText) ...`
NewText(resp) == IF resp.ok /\ resp.text # <<>> THEN Trim(resp.text) ELSE <<>>

\* an append without the separator
AppendWindowTextSticky(transcript, newText) == transcript \o newText

\* `separator = fullTranscript.length > 0 ? " " : ""; fullTranscript += separator + newText`
AppendWindowText(transcript, newText) ==
    IF newText = <<>>
    THEN transcript
    ELSE transcript \o (IF Len(transcript) > 0 THEN <<Space>> ELSE <<>>) \o newText

\* The response of an in-flight window request arrives; the callback resumes.
WindowDone(r, resp) ==
    /\ r \in inflight
    /\ r.sent
    /\ inflight' = inflight \ {r}
    /\ sess' = [sess EXCEPT ![r.session].transcript = AppendWindowText(@, NewText(resp))]
    /\ cb' = [cb EXCEPT ![r.session].transcripts =
                 IF NewText(resp) # <<>> THEN @ + 1 ELSE @]
    /\ completed' = [completed EXCEPT ![r.session] =
                      Append(@, [w |-> r.w, ok |-> resp.ok,
                                 text |-> IF resp.ok THEN resp.text ELSE <<>>])]
    /\ UNCHANGED <<service, provider, deviceRate, pureIn, pureOut, dispatched, captured, saves, currentSession, spc, qpc, qsess, qres, backups, nblocks,
                   nwin, nmsg, sprev, stopDuring, delivered>>

\* -------------------------------------------- continuous: the transport
\* A server message: an input transcription text and model-turn text parts;
\* <<>> is an absent or empty text.  Message k carries the words k of the speaker
\* and the words -k of the model.
Messages(k) ==
    { [input |-> <<k>>, parts |-> <<>>],
      [input |-> <<>>, parts |-> << <<>>, <<-k>> >>],
      [input |-> <<k>>, parts |-> << <<-k>> >>] }

RECURSIVE AppendParts(_, _)
AppendParts(transcript, parts) ==
    IF parts = <<>>
    THEN transcript
    ELSE AppendParts(IF Head(parts) # <<>> THEN transcript \o Head(parts) ELSE transcript,
                     Tail(parts))

\* the non-empty texts of a message, in the order the handler meets them
Deltas(m) ==
    (IF m.input # <<>> THEN <<m.input>> ELSE <<>>)
        \o SelectSeq(m.parts, LAMBDA t : t # <<>>)

\* a handler that replaces the transcript by the latest text
OnMessageReplaces(transcript, m) ==
    IF Deltas(m) = <<>> THEN transcript ELSE Deltas(m)[Len(Deltas(m))]

\* a handler that separates the deltas by a space
OnMessageSpaced(transcript, m) ==
    AppendParts(IF m.input # <<>> THEN transcript \o <<Space>> \o m.input ELSE transcript,
                m.parts)

\* `session.accumulatedTranscript += text` for the input transcription, then for each part
OnMessage(transcript, m) ==
    AppendParts(IF m.input # <<>> THEN transcript \o m.input ELSE transcript, m.parts)

\* onmessage of the live socket of session p.  A message received before close()
\* may reach the callback after it.
Message(p, m) ==
    /\ sess[p].socket \in {"open", "closing"}
    /\ Steps < MaxSteps
    /\ nmsg' = nmsg + 1
    /\ sess' = [sess EXCEPT ![p].transcript = OnMessage(@, m)]
    /\ cb' = [cb EXCEPT ![p].transcripts = @ + Len(Deltas(m))]
    /\ delivered' = [delivered EXCEPT ![p] = @ \o Deltas(m)]
    /\ UNCHANGED <<service, provider, deviceRate, pureIn, pureOut, dispatched, captured, saves, currentSession, spc, qpc, qsess, qres, inflight, backups,
                   nblocks, nwin, sprev, stopDuring, completed>>

\* onerror of the live socket: a connection-level failure; onError is invoked and
\* nothing of the session is touched.  onclose follows.
SocketError(p) ==
    /\ sess[p].socket = "open"
    /\ Steps < MaxSteps
    /\ nmsg' = nmsg + 1
    /\ sess' = [sess EXCEPT ![p].socket = "failing"]
    /\ cb' = [cb EXCEPT ![p].errors = @ + 1]
    /\ UNCHANGED <<service, provider, deviceRate, pureIn, pureOut, dispatched, captured, saves, currentSession, spc, qpc,
                   qsess, qres, inflight, backups, nblocks, nwin, sprev, stopDuring,
                   completed, delivered>>

\* onclose of the live socket when the server ends the connection:
\* onStatusChange('disconnected'), and nothing of the session is touched.
SocketDropped(p) ==
    /\ sess[p].socket = "open"
    /\ Steps < MaxSteps
    /\ nmsg' = nmsg + 1
    /\ sess' = [sess EXCEPT ![p].socket = "closed"]
    /\ cb' = [cb EXCEPT ![p] = Report(@, "disconnected")]
    /\ UNCHANGED <<service, provider, deviceRate, pureIn, pureOut, dispatched, captured, saves, currentSession, spc, qpc,
                   qsess, qres, inflight, backups, nblocks, nwin, sprev, stopDuring,
                   completed, delivered>>

\* onclose of the live socket after stop closed it or after an error:
\* onStatusChange('disconnected').
SocketClosed(p) ==
    /\ sess[p].socket \in {"closing", "failing"}
    /\ sess' = [sess EXCEPT ![p].socket = "closed"]
    /\ cb' = [cb EXCEPT ![p] = Report(@, "disconnected")]
    /\ UNCHANGED <<service, provider, deviceRate, pureIn, pureOut, dispatched, captured, saves, currentSession, spc, qpc, qsess, qres, inflight, backups,
                   nblocks, nwin, nmsg, sprev, stopDuring, completed, delivered>>

\* ------------------------------------------------------- specifications
NextWindowed ==
    \/ \E p \in Starts : StartCall(p, provider)
    \/ \E p \in Starts : StartStopResume(p)
    \/ \E p \in Starts : MicGranted(p)
    \/ \E p \in Starts : MicDenied(p)
    \/ \E p \in Starts : StartFinish(p)
    \/ \E p \in Starts : CtxInitFailed(p)
    \/ \E q \in Stops : StopCall(q)
    \/ \E q \in Stops : StopResume(q)
    \/ \E q \in Stops : StopThrows(q)
    \/ \E q \in Stops : RecorderSave(q, LaterThanAll(backups), "ok")
    \/ \E q \in Stops : RecorderHandoff(q)
    \/ \E p \in Starts : Capture(p)
    \/ \E p \in Starts : Tick(p)
    \/ \E r \in inflight : ReaderLoaded(r)
    \/ \E r \in inflight : \E resp \in Responses(r.w) : WindowDone(r, resp)

NextContinuous ==
    \/ \E p \in Starts : StartCall(p, provider)
    \/ \E p \in Starts : StartStopResume(p)
    \/ \E p \in Starts : ConnectOpen(p)
    \/ \E p \in Starts : ConnectFailed(p)
    \/ \E p \in Starts : MicGranted(p)
    \/ \E p \in Starts : MicDenied(p)
    \/ \E p \in Starts : StartFinish(p)
    \/ \E p \in Starts : CtxInitFailed(p)
    \/ \E q \in Stops : StopCall(q)
    \/ \E q \in Stops : StopResume(q)
    \/ \E q \in Stops : RecorderSave(q, LaterThanAll(backups), "ok")
    \/ \E q \in Stops : RecorderHandoff(q)
    \/ \E p \in Starts : Capture(p)
    \/ \E p \in Starts : \E m \in Messages(nmsg + 1) : Message(p, m)
    \/ \E p \in Starts : SocketError(p)
    \/ \E p \in Starts : SocketDropped(p)
    \/ \E p \in Starts : SocketClosed(p)

SpecWindowed == InitWindowed /\ [][NextWindowed]_vars
SpecContinuous == InitContinuous /\ [][NextContinuous]_vars

\* Either service file may be the one the application loads.
Init == InitWindowed \/ InitContinuous

Next ==
    \/ \E p \in Starts : StartCall(p, provider)
    \/ \E p \in Starts : StartStopResume(p)
    \/ \E p \in Starts : ConnectOpen(p)
    \/ \E p \in Starts : ConnectFailed(p)
    \/ \E p \in Starts : MicGranted(p)
    \/ \E p \in Starts : MicDenied(p)
    \/ \E p \in Starts : StartFinish(p)
    \/ \E p \in Starts : CtxInitFailed(p)
    \/ \E q \in Stops : StopCall(q)
    \/ \E q \in Stops : StopResume(q)
    \/ \E q \in Stops : StopThrows(q)
    \/ \E q \in Stops : RecorderSave(q, LaterThanAll(backups), "ok")
    \/ \E q \in Stops : RecorderHandoff(q)
    \/ \E p \in Starts : Capture(p)
    \/ \E p \in Starts : Tick(p)
    \/ \E r \in inflight : ReaderLoaded(r)
    \/ \E r \in inflight : \E resp \in Responses(r.w) : WindowDone(r, resp)
    \/ \E p \in Starts : \E m \in Messages(nmsg + 1) : Message(p, m)
    \/ \E p \in Starts : SocketError(p)
    \/ \E p \in Starts : SocketDropped(p)
    \/ \E p \in Starts : SocketClosed(p)

Spec == Init /\ [][Next]_vars

\* The device runs its AudioContext at a native rate, ignoring the requested 16000 Hz.
InitNative ==
    /\ service \in {"windowed", "continuous"}
    /\ provider = "google"
    /\ deviceRate \in NativeRates
    /\ Init0

SpecNative == InitNative /\ [][Next]_vars

\* The Backup Store on its own: saves from any component, of any session and
\* parameter, at any reading of the clock, and clears.
StoreBlobs == {EmptyBlob, EncodeWAV(<<Chunk(1, ScriptBufferSize, SAMPLE_RATE)>>, SAMPLE_RATE)}

InitStore ==
    /\ service = "none" /\ provider = "none" /\ deviceRate = SAMPLE_RATE
    /\ Init0

NextStore ==
    \/ \E blob \in StoreBlobs : \E sid \in SessionIds : \E pid \in ParamIds :
          \E now \in Times : \E outcome \in Outcomes :
              StoreSave(blob, sid, pid, now, outcome)
    \/ ClearAllBackups

SpecStore == InitStore /\ [][NextStore]_vars

\* The audio helpers on their own: one call of encodeWAV (after mergeBuffers),
\* buildWavBlob, resample or downsample on arguments of every shape.
ChunkSizes == {0, 1, ScriptBufferSize}
HelperRates == {-44100, 0, SAMPLE_RATE, 44100, 48000}

ChunkLists(rate) ==
    UNION { { [i \in 1..k |-> Chunk(i, f[i], rate)] : f \in [1..k -> ChunkSizes] } :
            k \in 0..MaxChunks }

HelperCalls ==
    { [fn |-> "encodeWAV", chunks |-> cs] : cs \in ChunkLists(SAMPLE_RATE) }
    \cup UNION { { [fn |-> "buildWavBlob", chunks |-> cs, rate |-> r] : cs \in ChunkLists(r) } :
                 r \in {SAMPLE_RATE} \cup NativeRates }
    \cup { [fn |-> f, len |-> n, fromRate |-> r, toRate |-> SAMPLE_RATE] :
               f \in {"resample", "downsample"}, n \in ChunkSizes, r \in HelperRates }

InitHelpers ==
    /\ service = "none" /\ provider = "none" /\ deviceRate = SAMPLE_RATE
    /\ InitState
    /\ pureIn \in HelperCalls
    /\ pureOut = NoCall

Unchanged0 ==
    UNCHANGED <<service, provider, deviceRate, pureIn, dispatched, captured, saves,
                currentSession, sess, spc, qpc, qsess, qres, cb, inflight, backups, nblocks,
                nwin, nmsg, sprev, stopDuring, completed, delivered>>

\* `encodeWAV(mergeBuffers(chunks, totalLength))`
CallEncodeWAV ==
    /\ pureIn.fn = "encodeWAV" /\ pureOut = NoCall
    /\ pureOut' = EncodeWAV(pureIn.chunks, SAMPLE_RATE)
    /\ Unchanged0

\* `buildWavBlob(chunks, sampleRate)`
CallBuildWavBlob ==
    /\ pureIn.fn = "buildWavBlob" /\ pureOut = NoCall
    /\ pureOut' = EncodeWAV(pureIn.chunks, pureIn.rate)
    /\ Unchanged0

\* `resample(audioBuffer, fromSampleRate, toSampleRate)`
CallResample ==
    /\ pureIn.fn = "resample" /\ pureOut = NoCall
    /\ pureOut' = Resample(pureIn.len, pureIn.fromRate, pureIn.toRate)
    /\ Unchanged0

\* `downsample(buffer, fromRate, toRate)`
CallDownsample ==
    /\ pureIn.fn = "downsample" /\ pureOut = NoCall
    /\ pureOut' = Resample(pureIn.len, pureIn.fromRate, pureIn.toRate)
    /\ Unchanged0

NextHelpers == CallEncodeWAV \/ CallBuildWavBlob \/ CallResample \/ CallDownsample

SpecHelpers == InitHelpers /\ [][NextHelpers]_vars

\* ================================================================ claims
\* stop has been invoked on the session of start p
StopInvoked(p) == ~sess[p].isActive /\ sess[p].ctx \in {"closing", "closed"}

\* start p has reported 'connecting' or holds a microphone stream
HasBegun(p) == cb[p].status # <<>> \/ sess[p].stream # "none"

\* the words of a text, without its spaces
Words(t) == SelectSeq(t, LAMBDA c : c # Space)

Increasing(ws) == \A i, j \in 1..Len(ws) : i < j => ws[i] < ws[j]

\* C1: for every interleaving of start and stop calls, at most one session with
\* isActive = true and an attached capture graph or window timer exists at any time.
LiveSessions == {p \in Starts : sess[p].isActive /\ (sess[p].graph \/ sess[p].timer)}
C1_AtMostOneLiveSession == Cardinality(LiveSessions) <= 1

\* C2: when start is called while a session is current and active, that session's
\* stop has run to completion (timer cancelled, tracks stopped, graph detached, audio
\* context closed, currentSession no longer that session) before the new start
\* reports 'connecting' or acquires the microphone.
C2_PreviousStoppedFirst ==
    \A p \in Starts :
        (sprev[p] # NoSession /\ HasBegun(p)) =>
            /\ ~sess[sprev[p]].isActive
            /\ ~sess[sprev[p]].timer
            /\ ~sess[sprev[p]].graph
            /\ sess[sprev[p]].stream = "stopped"
            /\ sess[sprev[p]].ctx = "closed"
            /\ currentSession # sprev[p]

C2_Witness ==
    \E p \in Starts : sprev[p] # NoSession /\ sess[p].stream = "live"
                      /\ "connecting" = cb[p].status[1]

\* C3: when start replaces an active session, the audio that session recorded has
\* been saved to the Backup Store before the new session begins.
C3_ReplacedAudioSaved ==
    \A p \in Starts :
        (sprev[p] # NoSession /\ HasBegun(p) /\ sess[sprev[p]].fullAudioChunks # <<>>) =>
            \E r \in backups : r.blob.blocks = sess[sprev[p]].fullAudioChunks

\* C4: a stop issued while a start is still connecting does not leave a session
\* active once that start completes.
C4_StopWhileConnectingWins ==
    \A p \in Starts : (stopDuring[p] /\ spc[p] = "done") => ~sess[p].isActive

\* C5: stop called when no session is current returns an empty transcript and an
\* empty audio buffer, raises no error, invokes no callback and changes no state.
C5_StopWithoutSessionIsNoop ==
    [][\A q \in Stops :
          (qpc[q] = "idle" /\ qpc'[q] # "idle" /\ currentSession = NoSession) =>
              /\ qpc'[q] = "returned"
              /\ qres'[q].transcript = <<>>
              /\ qres'[q].audioBlob.size = 0
              /\ UNCHANGED <<currentSession, sess, spc, cb, inflight, backups>>]_vars

C5_Witness ==
    \E q \in Stops : qpc[q] = "returned" /\ qsess[q] = NoSession /\ qres[q].returned

\* C6: after stop has been invoked on a session, a window response or transport
\* message that arrives later neither extends its transcript nor invokes onTranscript.
C6_LateResultsDiscarded ==
    [][\A p \in Starts :
          StopInvoked(p) =>
              /\ sess'[p].transcript = sess[p].transcript
              /\ cb'[p].transcripts = cb[p].transcripts]_vars

\* C7: in the windowed service the fragments of the transcript appear in the order
\* of the windows they were captured in, whatever order the responses arrive in.
C7_TranscriptInWindowOrder ==
    \A p \in Starts : Increasing(Words(sess[p].transcript))

\* C8: the transcript is append-only in both services: in every step the new
\* transcript of a session has the previous one as a prefix.
C8_TranscriptAppendOnly ==
    [][\A p \in Starts : IsPrefix(sess[p].transcript, sess'[p].transcript)]_vars

C8_Witness ==
    \E p \in Starts : Len(delivered[p]) >= 2 /\ Len(sess[p].transcript) >= 2

\* C9: in the windowed service, when the responses of a session arrive in window
\* order, its transcript is the trimmed non-empty texts of the successful windows
\* joined by exactly one space; a failed or blank window contributes nothing, is
\* not requested again, and leaves the session and its timer running.
InWindowOrder(h) == \A i, j \in 1..Len(h) : i < j => h[i].w < h[j].w

NonBlank(h) == SelectSeq(h, LAMBDA e : Trim(e.text) # <<>>)

RECURSIVE JoinWithSpace(_)
JoinWithSpace(h) ==
    IF h = <<>> THEN <<>>
    ELSE IF Len(h) = 1 THEN Trim(h[1].text)
    ELSE Trim(h[1].text) \o <<Space>> \o JoinWithSpace(Tail(h))

C9_JoinedInOrder ==
    \A p \in Starts :
        /\ InWindowOrder(completed[p]) =>
               sess[p].transcript = JoinWithSpace(NonBlank(completed[p]))
        /\ \A i, j \in 1..Len(completed[p]) : i # j => completed[p][i].w # completed[p][j].w
        /\ \A r \in inflight : \A i \in 1..Len(completed[p]) : completed[p][i].w # r.w

C9_FailureKeepsSession ==
    \A p \in Starts :
        completed'[p] # completed[p] =>
            /\ sess'[p].isActive = sess[p].isActive
            /\ sess'[p].timer = sess[p].timer
            /\ sess'[p].accumulatedData = sess[p].accumulatedData
            /\ inflight' \subseteq inflight

C9_WindowedTranscriptIsJoin == []C9_JoinedInOrder /\ [][C9_FailureKeepsSession]_vars

C9_Witness ==
    \E p \in Starts :
        /\ Len(completed[p]) = 2
        /\ InWindowOrder(completed[p])
        /\ Trim(completed[p][1].text) = <<>>
        /\ sess[p].transcript = Trim(completed[p][2].text)
        /\ sess[p].transcript # <<>>
        /\ sess[p].isActive

\* C10: in the continuous service the transcript is the concatenation of the deltas
\* delivered so far, in delivery order, with nothing lost or inserted, and stop
\* returns that string.
RECURSIVE Concat(_)
Concat(ts) == IF ts = <<>> THEN <<>> ELSE Head(ts) \o Concat(Tail(ts))

C10_IsConcatenation ==
    \A p \in Starts : sess[p].transcript = Concat(delivered[p])

C10_StopReturnsIt ==
    \A q \in Stops :
        (qpc[q] = "awaitClose" /\ qpc'[q] = "returned") =>
            qres'[q].transcript = Concat(delivered[qsess[q]])

C10_ContinuousConcatenation == []C10_IsConcatenation /\ [][C10_StopReturnsIt]_vars

C10_Witness ==
    \E q \in Stops :
        /\ qpc[q] = "returned"
        /\ qsess[q] # NoSession
        /\ Len(delivered[qsess[q]]) >= 2
        /\ qres[q].transcript = Concat(delivered[qsess[q]])

\* the capture blocks held by a sequence of chunks / accepted by session p
BlockIds(chunks) == [i \in 1..Len(chunks) |-> chunks[i].block]
CapturedIds(p) == [i \in 1..Len(captured[p]) |-> captured[p][i].block]

\* stop call q has returned the result of a session it tore down
StopReturned(q) == qpc[q] \notin {"idle", "awaitClose", "threw"} /\ qsess[q] # NoSession

\* C11: for a session in which every transport call failed (every window request,
\* every chunk sent to the socket), stop still returns normally, with a transcript
\* (empty in the windowed service) and an audio buffer that holds every block the
\* session captured before stop.
AllTransportFailed(p) ==
    /\ \A i \in 1..Len(completed[p]) : ~completed[p][i].ok
    /\ \A i \in 1..Len(captured[p]) : ~captured[p][i].sent

SomeTransportFailed(p) ==
    \/ \E i \in 1..Len(completed[p]) : ~completed[p][i].ok
    \/ \E i \in 1..Len(captured[p]) : service = "continuous" /\ ~captured[p][i].sent

C11_StopSurvivesTransportFailure ==
    \A q \in Stops :
        (StopReturned(q) /\ AllTransportFailed(qsess[q])) =>
            /\ qres[q].returned
            /\ BlockIds(qres[q].audioBlob.blocks) = CapturedIds(qsess[q])
            /\ qres[q].audioBlob.dataLen = 2 * TotalLength(qres[q].audioBlob.blocks)
            /\ service = "windowed" => qres[q].transcript = <<>>
            /\ service = "continuous" => IsPrefix(qres[q].transcript,
                                                   Concat(delivered[qsess[q]]))

C11_Witness ==
    \E q \in Stops :
        /\ StopReturned(q)
        /\ AllTransportFailed(qsess[q])
        /\ SomeTransportFailed(qsess[q])
        /\ qres[q].audioBlob.blocks # <<>>

\* C12: when getUserMedia fails during start, start reports 'disconnected', invokes
\* onError, rejects, and leaves no session behind: the session of that start is not
\* current and is not marked active.
MicFailed(p) ==
    /\ spc[p] = "failed"
    /\ sess[p].stream = "none"
    /\ service = "continuous" => \E i \in 1..Len(cb[p].status) : cb[p].status[i] = "connected"

C12_MicFailureLeavesNoSession ==
    \A p \in Starts :
        MicFailed(p) =>
            /\ \E i \in 1..Len(cb[p].status) : cb[p].status[i] = "disconnected"
            /\ cb[p].errors >= 1
            /\ currentSession # p
            /\ ~sess[p].isActive

\* C13: when start fails after the microphone stream was acquired, the tracks of the
\* stream are stopped before start rejects.
C13_StreamReleasedOnFailure ==
    \A p \in Starts : spc[p] = "failed" => sess[p].stream # "live"

\* C14: in the continuous service a socket error or a close by the server leaves the
\* session active with its graph, stream and context as they were; blocks captured
\* afterwards are still appended to the backup buffer; and a later stop releases the
\* hardware and returns a WAV of all the blocks, those captured after the loss included.
C14_LossKeepsCapture ==
    \A p \in Starts :
        (sess[p].socket = "open" /\ sess'[p].socket \in {"failing", "closed"}) =>
            /\ sess'[p].isActive = sess[p].isActive
            /\ sess'[p].graph = sess[p].graph
            /\ sess'[p].stream = sess[p].stream
            /\ sess'[p].ctx = sess[p].ctx
            /\ sess'[p].fullAudioChunks = sess[p].fullAudioChunks
            /\ currentSession' = currentSession

C14_BlocksKept ==
    \A p \in Starts : BlockIds(sess[p].fullAudioChunks) = CapturedIds(p)

C14_StopAfterLoss ==
    \A q \in Stops :
        StopReturned(q) =>
            /\ BlockIds(qres[q].audioBlob.blocks) = CapturedIds(qsess[q])
            /\ qres[q].audioBlob.size =
                   WavHeaderBytes + 2 * ScriptBufferSize * Len(captured[qsess[q]])
            /\ sess[qsess[q]].stream = "stopped"
            /\ ~sess[qsess[q]].graph
            /\ sess[qsess[q]].ctx = "closed"

C14_CaptureSurvivesSocketLoss ==
    [](C14_BlocksKept /\ C14_StopAfterLoss) /\ [][C14_LossKeepsCapture]_vars

C14_Witness ==
    \E q \in Stops :
        /\ StopReturned(q)
        /\ sess[qsess[q]].socket = "closed"
        /\ \E i \in 1..Len(captured[qsess[q]]) :
              /\ ~captured[qsess[q]][i].sent
              /\ qres[q].audioBlob.blocks[i].block = captured[qsess[q]][i].block

\* C15: every stop of an active session ends with 'disconnected' as the last status
\* reported through the callbacks of that session.
C15_StopReportsDisconnected ==
    \A q \in Stops :
        (qpc[q] \in {"handed", "noTranscript"} /\ qsess[q] # NoSession) =>
            /\ cb[qsess[q]].status # <<>>
            /\ cb[qsess[q]].status[Len(cb[qsess[q]].status)] = "disconnected"

\* C16: each Recorder stop saves the audio stop returned exactly once, under the
\* Recorder's sessionId and paramId, before the transcript is handed to the analysis
\* handler, and also when the transcript is empty.
C16_SavesWhatStopReturned ==
    \A q \in Stops :
        (qpc[q] = "returned" /\ qpc'[q] # "returned") =>
            /\ qpc'[q] = "saved"
            /\ saves'.ok = saves.ok + 1
            /\ backups \subseteq backups'
            /\ \E r \in backups' :
                  /\ backups' \ backups = {r}
                  /\ r.blob = qres[q].audioBlob
                  /\ r.sessionId = sessionId
                  /\ r.parameterId = paramId

C16_SavesOnlyThen ==
    (saves' # saves \/ backups' # backups) =>
        Cardinality({q \in Stops : qpc[q] = "returned" /\ qpc'[q] = "saved"}) = 1

C16_SaveBeforeHandoff ==
    \A q \in Stops :
        (qpc'[q] # qpc[q] /\ qpc'[q] \in {"handed", "noTranscript"}) =>
            /\ qpc[q] = "saved"
            /\ qpc'[q] = "handed" <=> qres[q].transcript # <<>>

C17_CountEqualsSaves == GetStorageStats(backups).count = saves.ok

\* C18: getQuestionAudio(sessionId, parameterId) returns exactly the stored records
\* of that session and parameter, in strictly ascending order of their timestamps.
Matching(sid, pid) == {r \in backups : r.sessionId = sid /\ r.parameterId = pid}

C18_QuestionAudioExactAndSorted ==
    \A sid \in SessionIds : \A pid \in ParamIds :
        LET res == GetQuestionAudio(backups, sid, pid)
        IN  /\ {res[i] : i \in 1..Len(res)} = Matching(sid, pid)
            /\ Len(res) = Cardinality(Matching(sid, pid))
            /\ \A i, j \in 1..Len(res) : i < j => res[i].timestamp < res[j].timestamp

C18_Witness ==
    \E sid \in SessionIds : \E pid \in ParamIds :
        /\ Len(GetQuestionAudio(backups, sid, pid)) = 2
        /\ \E r \in backups : r.sessionId = sid /\ r.parameterId # pid

\* C19: saveAudioBackup never lets a failure reach its caller: when opening the
\* database or writing the record fails, the call still completes normally and the
\* records of the store are as they were.
C19_FailureLeavesStore ==
    saves'.failed = saves.failed + 1 =>
        /\ backups' = backups
        /\ saves'.threw = saves.threw
        /\ saves'.ok = saves.ok

C19_SaveNeverThrows == [](saves.threw = 0) /\ [][C19_FailureLeavesStore]_vars

C19_Witness == saves.failed >= 1 /\ saves.ok >= 1 /\ backups # {}

\* C20: after start, N >= 1 capture blocks at a native rate other than 16000 Hz and
\* stop, the backup WAV carries 16000 in its sample-rate field and its data length
\* is 2 bytes for each resampled sample of the N blocks.
C20_BackupIsResampled ==
    \A q \in Stops :
        (StopReturned(q) /\ captured[qsess[q]] # <<>> /\ deviceRate # SAMPLE_RATE) =>
            /\ qres[q].audioBlob.sampleRate = SAMPLE_RATE
            /\ qres[q].audioBlob.dataLen =
                   2 * Len(captured[qsess[q]])
                     * ResampleLength(ScriptBufferSize, deviceRate, SAMPLE_RATE)

\* C21: the WAV encoder of either service returns, for n samples in all, exactly
\* 44 + 2n bytes whose RIFF length field is 36 + 2n and whose data length field is
\* 2n; with no sample it returns the 44-byte header alone.
SamplesIn(call) == TotalLength(call.chunks)

C21_EncoderLengths ==
    (pureIn.fn \in {"encodeWAV", "buildWavBlob"} /\ pureOut # NoCall) =>
        /\ pureOut.size = 44 + 2 * SamplesIn(pureIn)
        /\ pureOut.riffLen = 36 + 2 * SamplesIn(pureIn)
        /\ pureOut.dataLen = 2 * SamplesIn(pureIn)
        /\ SamplesIn(pureIn) = 0 => pureOut.size = 44 /\ pureOut.dataLen = 0

C21_Witness ==
    /\ pureIn.fn = "encodeWAV" /\ pureOut # NoCall
    /\ pureIn.chunks # <<>> /\ SamplesIn(pureIn) = 0
    /\ pureOut.size = 44

\* C22: a stop on an active session that captured no block returns an empty
\* transcript and a well-formed WAV: the 44-byte header with data length 0.
C22_EmptyRecordingHasHeader ==
    \A q \in Stops :
        (StopReturned(q) /\ captured[qsess[q]] = <<>>) =>
            /\ qres[q].transcript = <<>>
            /\ qres[q].audioBlob.size = WavHeaderBytes
            /\ qres[q].audioBlob.riffLen = 36
            /\ qres[q].audioBlob.dataLen = 0

\* C23: resample and downsample fail with an InvalidParameterError, and return no
\* block, whenever the source rate is not positive or the block is empty.
C23_DegenerateInputsRejected ==
    (/\ pureIn.fn \in {"resample", "downsample"}
     /\ pureOut # NoCall
     /\ (pureIn.fromRate <= 0 \/ pureIn.len = 0)) =>
        pureOut = Throws("InvalidParameterError")

\* C24: a start with the provider that has no audio-input path, 'openrouter', is
\* rejected before the microphone is acquired: no session of such a start holds a
\* stream or becomes active.
C24_UnsupportedProviderRejected ==
    \A p \in Starts :
        provider = "openrouter" =>
            /\ sess[p].stream = "none"
            /\ ~sess[p].isActive
            /\ spc[p] \notin {"ctxInit", "done"}

\* C25: window boundaries are atomic with respect to capture: in every state of a
\* windowed session the windows dispatched so far, concatenated in order and
\* followed by the pending window buffer, are exactly the captured (resampled)
\* blocks in capture order; no block is dropped or counted twice, and the pending
\* sample count is the length of the pending buffer.
C25_WindowsPartitionCapture ==
    \A p \in Starts :
        /\ dispatched[p] \o sess[p].accumulatedData = sess[p].fullAudioChunks
        /\ BlockIds(dispatched[p] \o sess[p].accumulatedData) = CapturedIds(p)
        /\ Increasing(CapturedIds(p))
        /\ sess[p].totalSamples = TotalLength(sess[p].accumulatedData)

C25_Witness ==
    \E p \in Starts :
        /\ sess[p].isActive
        /\ dispatched[p] # <<>>
        /\ sess[p].accumulatedData # <<>>
        /\ Len(captured[p]) = 2

\* C26: once stop has marked a session inactive, a later capture callback or timer
\* tick for it changes neither its backup buffer nor its pending window buffer,
\* swaps out no window and sends nothing to the transport; the WAV that stop
\* returns holds exactly the blocks the session had captured when stop was called,
\* in capture order.
C26_StoppedIsFrozen ==
    \A p \in Starts :
        StopInvoked(p) =>
            /\ sess'[p].fullAudioChunks = sess[p].fullAudioChunks
            /\ sess'[p].accumulatedData = sess[p].accumulatedData
            /\ sess'[p].totalSamples = sess[p].totalSamples
            /\ dispatched'[p] = dispatched[p]
            /\ nblocks' # nblocks => inflight' = inflight

C26_StopTakesSnapshot ==
    \A q \in Stops :
        (qpc[q] = "idle" /\ qpc'[q] = "awaitClose") =>
            sess'[qsess'[q]].fullAudioChunks = sess[qsess'[q]].fullAudioChunks

C26_ReturnsSnapshot ==
    \A q \in Stops :
        (qpc[q] = "awaitClose" /\ qpc'[q] = "returned") =>
            /\ qres'[q].audioBlob.blocks = sess[qsess[q]].fullAudioChunks
            /\ BlockIds(qres'[q].audioBlob.blocks) = CapturedIds(qsess[q])

C26_NoOpAfterStop ==
    [][C26_StoppedIsFrozen /\ C26_StopTakesSnapshot /\ C26_ReturnsSnapshot]_vars

\* a block reached the callback of a stopped session and is not in the WAV
C26_Witness ==
    \E q \in Stops :
        /\ StopReturned(q)
        /\ Len(qres[q].audioBlob.blocks) = 1
        /\ nblocks = 2
        /\ \A p \in Starts : p # qsess[q] => spc[p] = "idle"

\* C27: no live session is orphaned: a session that is active, or still has its
\* capture graph or its timer, is the one currentSession points to; in particular a
\* stop that resumes from its await never clears the reference to a session other
\* than the one it tore down.
C27_InstalledSessionIsCurrent ==
    \A p \in Starts :
        (spc[p] = "done" /\ sess[p].isActive /\ (sess[p].graph \/ sess[p].timer)) =>
            currentSession = p

C27_ResumeKeepsNewer ==
    \A q \in Stops :
        (qpc[q] = "awaitClose" /\ qpc'[q] # "awaitClose" /\ currentSession # qsess[q]) =>
            currentSession' = currentSession

C27_SuspendedStopKeepsNewer == [][C27_ResumeKeepsNewer]_vars

\* C28: the recording of a session is delivered by one stop call only: of two stop
\* calls that returned for the same session, one returned the empty result.
C28_OneDeliveryPerSession ==
    \A q1, q2 \in Stops :
        (q1 # q2 /\ StopReturned(q1) /\ StopReturned(q2) /\ qsess[q1] = qsess[q2]) =>
            (qres[q1] = EmptyResult \/ qres[q2] = EmptyResult)

\* C29: in the windowed service a stop call issues no transcription request and
\* swaps out no window; the blocks captured after the last window boundary are in
\* the WAV that stop returns and in no request; the returned transcript holds only
\* text of windows swapped out before the stop.
Elements(seq) == {seq[i] : i \in 1..Len(seq)}

C29_StopSendsNothing ==
    \A q \in Stops :
        qpc'[q] # qpc[q] =>
            /\ inflight' = inflight
            /\ dispatched' = dispatched
            /\ nwin' = nwin

C29_PendingOnlyInBackup ==
    \A q \in Stops :
        StopReturned(q) =>
            LET p == qsess[q] IN
            /\ qres[q].audioBlob.blocks = dispatched[p] \o sess[p].accumulatedData
            /\ Elements(sess[p].accumulatedData) \cap Elements(dispatched[p]) = {}
            /\ \A r \in inflight :
                   r.session = p => Elements(r.wav.blocks) \subseteq Elements(dispatched[p])
            /\ \A i \in 1..Len(completed[p]) : completed[p][i].w <= nwin
            /\ Elements(Words(qres[q].transcript)) \subseteq
                   {completed[p][i].w : i \in 1..Len(completed[p])}

C29_StopFlushesNoWindow ==
    []C29_PendingOnlyInBackup /\ [][C29_StopSendsNothing]_vars

C29_Witness ==
    \E q \in Stops :
        /\ StopReturned(q)
        /\ Len(dispatched[qsess[q]]) = 1
        /\ Len(sess[qsess[q]].accumulatedData) = 1
        /\ Len(qres[q].audioBlob.blocks) = 2
        /\ qres[q].transcript # <<>>

\* C30: the backup WAV that stop returns is self-consistent in both services: the
\* sample rate in its header is the rate of every block stored in it, and its data
\* length is two bytes per stored sample.  windowed: blocks resampled to 16000 and
\* a header of 16000; continuous: verbatim blocks and the context's actual rate.
C30_HeaderMatchesData ==
    \A q \in Stops :
        (StopReturned(q) /\ qres[q].audioBlob.blocks # <<>>) =>
            LET blob == qres[q].audioBlob IN
            /\ \A c \in Elements(blob.blocks) : c.rate = blob.sampleRate
            /\ blob.dataLen = 2 * TotalLength(blob.blocks)
            /\ service = "windowed" =>
                   /\ blob.sampleRate = SAMPLE_RATE
                   /\ \A c \in Elements(blob.blocks) :
                          c.samples =
                              Resample(ScriptBufferSize, deviceRate, SAMPLE_RATE).length
            /\ service = "continuous" =>
                   /\ blob.sampleRate = deviceRate
                   /\ \A c \in Elements(blob.blocks) : c.samples = ScriptBufferSize

C30_Witness ==
    \E q \in Stops :
        /\ StopReturned(q)
        /\ service = "continuous"
        /\ deviceRate # SAMPLE_RATE
        /\ Len(qres[q].audioBlob.blocks) = 2
        /\ qres[q].audioBlob.sampleRate = deviceRate

====
